---------------------------- MODULE Spec2Model ----------------------------
(***************************************************************************)
(* Round lifecycle of the "AI or not" quiz (src/app.js): scenario boot,    *)
(* session start, round loading with skip-on-failure, the round timer,     *)
(* choice resolution, loss handling with the grace delay, end and reset.   *)
(*                                                                         *)
(* JavaScript runs one event handler at a time; each action below is one   *)
(* handler (click, timeout callback, image-load settlement) together with  *)
(* the promise continuations that run in its microtask queue.  A click is  *)
(* delivered only by a button on the screen switchScreen left visible and  *)
(* not disabled by the code; handleChoice guards itself, so it is offered  *)
(* in every state.                                                         *)
(*                                                                         *)
(* Spec takes an image load at the moment its promise settles; LoadSpec    *)
(* follows loadImageElement calls event by event; FaultSpec lets           *)
(* loadRound's DOM statements throw; FairSpec and LiveSpec add the         *)
(* fairness of the browser's timers and loads.                             *)
(***************************************************************************)
EXTENDS Integers, Sequences, FiniteSets, Bags, TLC

INITIAL_LIVES == 3

\* Longest scenario list the boot may fetch.
MaxScenarios == 4

\* The scenario records scenario.json may contain: an image, an image whose
\* src is the empty string, and a text.
ScenarioPool ==
    { [type |-> "image", src |-> "a", isAI |-> TRUE],
      [type |-> "image", src |-> "",  isAI |-> FALSE],
      [type |-> "text",  src |-> "t", isAI |-> FALSE] }

Choices == {"ai", "real"}

ScenarioLists == UNION { [1..n -> ScenarioPool] : n \in 0..MaxScenarios }

VARIABLES
    scenarios,               \* let scenarios
    gameState,               \* let gameState {score, lives, currentScenarioIndex, timer, acceptingInput}
    roundTimeouts,           \* handles of the round timeouts that are scheduled and not fired or cleared
    graceTimeouts,           \* number of scheduled setTimeout(nextRound, 500) callbacks
    pendingLoads,            \* loadRound calls suspended at await createRoundMediaNode
    preloadedImagePromises,  \* the Map src -> state of the memoized preload promise
    ui,                      \* visible screen, button states, HUD texts
    boot,                    \* progress of init()'s loadScenarios().then(preload) chain
    effects,                 \* scoring effects (score++ / lives--) since the round timer was last armed
    lastReason,              \* argument of the endGame call that ended the session, "none" before
    lastEvent,               \* the handler that ran last
    imageLoads               \* loadImageElement calls followed event by event (LoadSpec)

vars == <<scenarios, gameState, roundTimeouts, graceTimeouts, pendingLoads,
          preloadedImagePromises, ui, boot, effects, lastReason, lastEvent,
          imageLoads>>

\* The program state as one record, threaded through the functions below.
World ==
    [ scenarios |-> scenarios, gameState |-> gameState,
      roundTimeouts |-> roundTimeouts, graceTimeouts |-> graceTimeouts,
      pendingLoads |-> pendingLoads,
      preloadedImagePromises |-> preloadedImagePromises,
      ui |-> ui, effects |-> effects, lastReason |-> lastReason ]

Becomes(w) ==
    /\ scenarios' = w.scenarios
    /\ gameState' = w.gameState
    /\ roundTimeouts' = w.roundTimeouts
    /\ graceTimeouts' = w.graceTimeouts
    /\ pendingLoads' = w.pendingLoads
    /\ preloadedImagePromises' = w.preloadedImagePromises
    /\ ui' = w.ui
    /\ effects' = w.effects
    /\ lastReason' = w.lastReason
    /\ UNCHANGED imageLoads

-----------------------------------------------------------------------------
(* Browser primitives *)

\* clearTimeout(gameState.timer): the handle stays stored, the callback is dropped.
clearTimeout(w, id) == [w EXCEPT !.roundTimeouts = @ \ {id}]

\* setTimeout returns a handle that is in use nowhere else.
NewHandle(w) ==
    CHOOSE i \in 1..3 :
        /\ i \notin w.roundTimeouts \cup {w.gameState.timer}
        /\ \A j \in 1..3 : (j \notin w.roundTimeouts \cup {w.gameState.timer}) => i <= j

switchScreen(w, screenName) == [w EXCEPT !.ui.screen = screenName]

disableChoiceButtons(w, disabled) == [w EXCEPT !.ui.choiceDisabled = disabled]

updateHUD(w) ==
    [w EXCEPT !.ui.lives = w.gameState.lives, !.ui.score = w.gameState.score]

-----------------------------------------------------------------------------
(* Core functions *)

endGame(w, reason) ==
    LET w1 == clearTimeout(w, w.gameState.timer)
        w2 == [w1 EXCEPT !.gameState.acceptingInput = FALSE]
        w3 == disableChoiceButtons(w2, TRUE)
        w4 == [w3 EXCEPT !.lastReason = reason]
    IN  switchScreen(w4, "result")

\* resetGame flipping the choice buttons instead of enabling them.
resetGame_TogglesButtons(w) ==
    LET w1 == clearTimeout(w, w.gameState.timer)
        w2 == [w1 EXCEPT !.gameState.acceptingInput = FALSE]
        w3 == disableChoiceButtons(w2, ~w.ui.choiceDisabled)
        w4 == [w3 EXCEPT !.ui.startBtnDisabled = FALSE]
    IN  switchScreen(w4, "start")

resetGame(w) ==
    LET w1 == clearTimeout(w, w.gameState.timer)
        w2 == [w1 EXCEPT !.gameState.acceptingInput = FALSE]
        w3 == disableChoiceButtons(w2, FALSE)
        w4 == [w3 EXCEPT !.ui.startBtnDisabled = FALSE]
    IN  switchScreen(w4, "start")

\* startTimer without `clearTimeout(gameState.timer)`.
startTimer_KeepsOld(w) ==
    LET w1 == [w EXCEPT !.gameState.acceptingInput = TRUE, !.effects = 0]
        h  == NewHandle(w1)
    IN  [w1 EXCEPT !.gameState.timer = h, !.roundTimeouts = @ \cup {h}]

startTimer(w) ==
    LET w1 == [w EXCEPT !.gameState.acceptingInput = TRUE, !.effects = 0]
        w2 == clearTimeout(w1, w1.gameState.timer)
        h  == NewHandle(w2)
    IN  [w2 EXCEPT !.gameState.timer = h, !.roundTimeouts = @ \cup {h}]

\* startGame's statements after `await loadRound({ initial: true })`.
startGameResume(w, initial) ==
    IF initial THEN [w EXCEPT !.ui.startBtnDisabled = FALSE] ELSE w

\* loadRound after the await succeeded: show the round and arm the timer.
roundReady(w, initial) ==
    LET w1 == IF initial THEN switchScreen(w, "game") ELSE w
        w2 == disableChoiceButtons(w1, FALSE)
    IN  startGameResume(startTimer(w2), initial)

\* createRoundMediaNode showing the preloaded image instead of loading afresh.
createRoundMediaNode_ReusesPreload(w, roundData, initial) ==
    IF roundData.type = "image" /\ w.preloadedImagePromises[roundData.src] # "ok"
    THEN LET known == w.preloadedImagePromises[roundData.src] # "absent"
             settled == w.preloadedImagePromises[roundData.src] \in {"ok", "failed"}
             w1 == IF known THEN w
                   ELSE [w EXCEPT !.preloadedImagePromises[roundData.src] = "pending"]
         IN  [w1 EXCEPT !.pendingLoads = @ \cup
                 {[initial |-> initial, src |-> roundData.src,
                   stage |-> IF settled THEN "fresh" ELSE "preload"]}]
    ELSE roundReady(w, initial)

\* createRoundMediaNode up to its first suspension on an image event:
\* a text node is returned at once, an image suspends the caller.
createRoundMediaNode(w, roundData, initial) ==
    IF roundData.type = "image"
    THEN LET known == w.preloadedImagePromises[roundData.src] # "absent"
             settled == w.preloadedImagePromises[roundData.src] \in {"ok", "failed"}
             w1 == IF known THEN w
                   ELSE [w EXCEPT !.preloadedImagePromises[roundData.src] = "pending"]
         IN  [w1 EXCEPT !.pendingLoads = @ \cup
                 {[initial |-> initial, src |-> roundData.src,
                   stage |-> IF settled THEN "fresh" ELSE "preload"]}]
    ELSE roundReady(w, initial)

\* loadRound returning at the end of the sequence without calling endGame.
loadRound_NoEnd(w, initial) ==
    IF w.gameState.currentScenarioIndex >= Len(w.scenarios)
    THEN startGameResume(w, initial)
    ELSE LET w1 == clearTimeout(w, w.gameState.timer)
             w2 == [w1 EXCEPT !.gameState.acceptingInput = FALSE]
             w3 == disableChoiceButtons(w2, TRUE)
             currentData == w.scenarios[w.gameState.currentScenarioIndex + 1]
         IN  createRoundMediaNode(w3, currentData, initial)

\* loadRound from its entry to its first suspension.
loadRound(w, initial) ==
    IF w.gameState.currentScenarioIndex >= Len(w.scenarios)
    THEN startGameResume(endGame(w, "Simulation Complete."), initial)
    ELSE LET w1 == clearTimeout(w, w.gameState.timer)
             w2 == [w1 EXCEPT !.gameState.acceptingInput = FALSE]
             w3 == disableChoiceButtons(w2, TRUE)
             currentData == w.scenarios[w.gameState.currentScenarioIndex + 1]
         IN  createRoundMediaNode(w3, currentData, initial)

\* A catch block that retries the same scenario.
loadRoundCatch_Retries(w, initial) == loadRound(w, initial)

\* A skip that also costs a life.
loadRoundCatch_CostsLife(w, initial) ==
    loadRound([w EXCEPT !.gameState.currentScenarioIndex = @ + 1,
                        !.gameState.lives = @ - 1], initial)

\* loadRound's catch block: skip the scenario and load the next one.
loadRoundCatch(w, initial) ==
    loadRound([w EXCEPT !.gameState.currentScenarioIndex = @ + 1], initial)

\* nextRound on top of an index its caller had already advanced.
nextRound_SkipsOne(w) ==
    loadRound([w EXCEPT !.gameState.currentScenarioIndex = @ + 2], FALSE)

nextRound(w) ==
    loadRound([w EXCEPT !.gameState.currentScenarioIndex = @ + 1], FALSE)

\* handleLoss scheduling nextRound after every loss, the last one included.
handleLoss_AlwaysSchedules(w, reason) ==
    LET w1 == [w EXCEPT !.gameState.acceptingInput = FALSE,
                        !.gameState.lives = @ - 1,
                        !.effects = @ + 1]
        w2 == updateHUD(w1)
        w3 == [w2 EXCEPT !.graceTimeouts = @ + 1]
    IN  IF w3.gameState.lives <= 0 THEN endGame(w3, reason) ELSE w3

\* handleLoss calling nextRound at once instead of after the 500ms delay.
handleLoss_NoDelay(w, reason) ==
    LET w1 == [w EXCEPT !.gameState.acceptingInput = FALSE,
                        !.gameState.lives = @ - 1,
                        !.effects = @ + 1]
        w2 == updateHUD(w1)
    IN  IF w2.gameState.lives <= 0
        THEN endGame(w2, reason)
        ELSE nextRound(w2)

\* handleLoss ending the game only once lives is below zero.
handleLoss_EndsBelowZero(w, reason) ==
    LET w1 == [w EXCEPT !.gameState.acceptingInput = FALSE,
                        !.gameState.lives = @ - 1,
                        !.effects = @ + 1]
        w2 == updateHUD(w1)
    IN  IF w2.gameState.lives < 0
        THEN endGame(w2, reason)
        ELSE [w2 EXCEPT !.graceTimeouts = @ + 1]

\* handleLoss without `gameState.acceptingInput = false`.
handleLoss_KeepsInput(w, reason) ==
    LET w1 == [w EXCEPT !.gameState.lives = @ - 1,
                        !.effects = @ + 1]
        w2 == updateHUD(w1)
    IN  IF w2.gameState.lives <= 0
        THEN endGame(w2, reason)
        ELSE [w2 EXCEPT !.graceTimeouts = @ + 1]

handleLoss(w, reason) ==
    LET w1 == [w EXCEPT !.gameState.acceptingInput = FALSE,
                        !.gameState.lives = @ - 1,
                        !.effects = @ + 1]
        w2 == updateHUD(w1)
    IN  IF w2.gameState.lives <= 0
        THEN endGame(w2, reason)
        ELSE [w2 EXCEPT !.graceTimeouts = @ + 1]

\* handleChoice without `clearTimeout(gameState.timer)`.
handleChoice_KeepsTimer(w, userChoice) ==
    IF ~w.gameState.acceptingInput
    THEN w
    ELSE LET w1 == [w EXCEPT !.gameState.acceptingInput = FALSE]
             currentData == w.scenarios[w.gameState.currentScenarioIndex + 1]
             isAi == currentData.isAI
             userChoseAi == (userChoice = "ai")
         IN  IF userChoseAi = isAi
             THEN nextRound([w1 EXCEPT !.gameState.score = @ + 1, !.effects = @ + 1])
             ELSE handleLoss(w1, "Incorrect Classification")

\* handleChoice guarded by the buttons' state instead of acceptingInput.
handleChoice_GuardsOnButtons(w, userChoice) ==
    IF w.ui.choiceDisabled \/ w.ui.screen # "game"
    THEN w
    ELSE LET w1 == [w EXCEPT !.gameState.acceptingInput = FALSE]
             w2 == clearTimeout(w1, w1.gameState.timer)
             currentData == w.scenarios[w.gameState.currentScenarioIndex + 1]
             isAi == currentData.isAI
             userChoseAi == (userChoice = "ai")
         IN  IF userChoseAi = isAi
             THEN nextRound([w2 EXCEPT !.gameState.score = @ + 1, !.effects = @ + 1])
             ELSE handleLoss(w2, "Incorrect Classification")

\* handleChoice comparing the flag with "real" instead of "ai".
handleChoice_Inverted(w, userChoice) ==
    IF ~w.gameState.acceptingInput
    THEN w
    ELSE LET w1 == [w EXCEPT !.gameState.acceptingInput = FALSE]
             w2 == clearTimeout(w1, w1.gameState.timer)
             currentData == w.scenarios[w.gameState.currentScenarioIndex + 1]
             isAi == currentData.isAI
             userChoseAi == (userChoice = "real")
         IN  IF userChoseAi = isAi
             THEN nextRound([w2 EXCEPT !.gameState.score = @ + 1, !.effects = @ + 1])
             ELSE handleLoss(w2, "Incorrect Classification")

handleChoice(w, userChoice) ==
    IF ~w.gameState.acceptingInput
    THEN w
    ELSE LET w1 == [w EXCEPT !.gameState.acceptingInput = FALSE]
             w2 == clearTimeout(w1, w1.gameState.timer)
             currentData == w.scenarios[w.gameState.currentScenarioIndex + 1]
             isAi == currentData.isAI
             userChoseAi == (userChoice = "ai")
         IN  IF userChoseAi = isAi
             THEN nextRound([w2 EXCEPT !.gameState.score = @ + 1, !.effects = @ + 1])
             ELSE handleLoss(w2, "Incorrect Classification")

\* The callback startTimer schedules: () => handleLoss('Time Expired'),
\* run for the handle h that fired.
\* A timeout that skips the round without charging a life.
timerCallback_SkipsRound(w, h) ==
    nextRound([w EXCEPT !.roundTimeouts = @ \ {h}, !.gameState.acceptingInput = FALSE,
                        !.effects = @ + 1])

timerCallback(w, h) ==
    handleLoss([w EXCEPT !.roundTimeouts = @ \ {h}], "Time Expired")

\* The orders Array.prototype.sort may leave n elements in.
SortOrders(n) == Permutations(1..n)

\* scenarios.sort(() => Math.random() - 0.5), with p the order the sort produced.
shuffle(s, p) == [i \in 1..Len(s) |-> s[p[i]]]

\* The arrays the shuffle may leave in `scenarios`.
Shuffles(s) == { shuffle(s, p) : p \in SortOrders(Len(s)) }

\* startGame without `gameState.lives = INITIAL_LIVES`.
startGame_KeepsLives(w, shuffled) ==
    IF Len(w.scenarios) = 0
    THEN w
    ELSE LET w1 == [w EXCEPT !.ui.startBtnDisabled = TRUE]
             w2 == clearTimeout(w1, w1.gameState.timer)
             w3 == [w2 EXCEPT !.gameState.score = 0,
                              !.gameState.currentScenarioIndex = 0,
                              !.gameState.acceptingInput = FALSE,
                              !.lastReason = "none"]
             w4 == [w3 EXCEPT !.scenarios = shuffled]
             w5 == disableChoiceButtons(updateHUD(w4), TRUE)
         IN  loadRound(w5, TRUE)

startGame(w, shuffled) ==
    IF Len(w.scenarios) = 0
    THEN w
    ELSE LET w1 == [w EXCEPT !.ui.startBtnDisabled = TRUE]
             w2 == clearTimeout(w1, w1.gameState.timer)
             w3 == [w2 EXCEPT !.gameState.score = 0,
                              !.gameState.lives = INITIAL_LIVES,
                              !.gameState.currentScenarioIndex = 0,
                              !.gameState.acceptingInput = FALSE,
                              !.lastReason = "none"]
             w4 == [w3 EXCEPT !.scenarios = shuffled]
             w5 == disableChoiceButtons(updateHUD(w4), TRUE)
         IN  loadRound(w5, TRUE)

-----------------------------------------------------------------------------
(* loadImageElement, one call: the closure's variables and the promise *)

\* loadImageElement calls that may be in flight together.
MaxLoads == 2

\* A slot in which no call has been made.
NoLoad ==
    [ started |-> FALSE, complete |-> FALSE, done |-> FALSE, timeoutId |-> FALSE,
      onload |-> FALSE, onerror |-> FALSE, event |-> "none",
      decodes |-> 0, settles |-> 0, promise |-> "pending" ]

\* finish without the `done` check.
finish_Unguarded(l, error) ==
    [l EXCEPT !.done = TRUE, !.timeoutId = FALSE,
              !.onload = FALSE, !.onerror = FALSE,
              !.settles = @ + 1,
              !.promise = IF l.promise # "pending" THEN @
                          ELSE IF error THEN "rejected" ELSE "resolved"]

\* finish(error): settle the promise unless a completion was already taken.
\* settles counts the calls of resolve and reject.
finish(l, error) ==
    IF l.done
    THEN l
    ELSE [l EXCEPT !.done = TRUE, !.timeoutId = FALSE,
                   !.onload = FALSE, !.onerror = FALSE,
                   !.settles = @ + 1,
                   !.promise = IF l.promise # "pending" THEN @
                               ELSE IF error THEN "rejected" ELSE "resolved"]

\* markReady: start a decode whose completion, failed or not, calls finish(null).
markReady(l) == [l EXCEPT !.decodes = @ + 1]

\* The promise executor: schedule the timeout, install the handlers, set
\* src, and call markReady at once when the image is already complete.
loadImageElement(complete) ==
    LET l == [NoLoad EXCEPT !.started = TRUE, !.complete = complete,
                            !.timeoutId = TRUE,
                            !.onload = TRUE, !.onerror = TRUE]
    IN  IF complete THEN markReady(l) ELSE l

-----------------------------------------------------------------------------
(* Boot: init() *)

\* The image sources preloadScenarioAssets starts a load for.
imageSources(items) ==
    { items[i].src : i \in { k \in 1..Len(items) :
                                items[k].type = "image" /\ items[k].src # "" } }

AllSrcs == { s.src : s \in ScenarioPool }

Init ==
    /\ scenarios = << >>
    /\ gameState = [score |-> 0, lives |-> INITIAL_LIVES, currentScenarioIndex |-> 0,
                    timer |-> 0, acceptingInput |-> FALSE]
    /\ roundTimeouts = {}
    /\ graceTimeouts = 0
    /\ pendingLoads = {}
    /\ preloadedImagePromises = [s \in AllSrcs |-> "absent"]
    /\ ui = [screen |-> "start", startBtnDisabled |-> TRUE, choiceDisabled |-> FALSE,
             lives |-> INITIAL_LIVES, score |-> 0]
    /\ boot = "fetching"
    /\ effects = 0
    /\ lastReason = "none"
    /\ lastEvent = "init"
    /\ imageLoads = [i \in 1..MaxLoads |-> NoLoad]

\* loadScenarios resolved with `data`; preloadScenarioAssets starts the preloads.
ScenariosLoaded(data) ==
    /\ boot = "fetching"
    /\ LET srcs == imageSources(data)
           w1 == [World EXCEPT !.scenarios = data,
                     !.preloadedImagePromises =
                         [s \in AllSrcs |-> IF s \in srcs THEN "pending" ELSE @[s]]]
       IN  IF srcs = {}
           THEN /\ Becomes([w1 EXCEPT !.ui.startBtnDisabled = FALSE])
                /\ boot' = "ready"
           ELSE /\ Becomes(w1)
                /\ boot' = "preloading"
    /\ lastEvent' = "loadScenarios"

\* fetch failed or the payload was not an array: the start button stays disabled.
ScenariosFailed ==
    /\ boot = "fetching"
    /\ boot' = "failed"
    /\ lastEvent' = "loadScenariosFailed"
    /\ Becomes(World)

\* createRoundMediaNode after `await getOrCreatePreloadPromise(src).catch(() => {})`:
\* whatever the preload's outcome, the calls waiting for src go on to their
\* own loadImageElement.
preloadAwaited(w, src, outcome) ==
    [w EXCEPT !.pendingLoads =
        { IF l.src = src /\ l.stage = "preload" THEN [l EXCEPT !.stage = "fresh"] ELSE l
            : l \in @ }]

\* The outcomes the load of src can have: an empty src only fires the error event.
LoadOutcomes(src) == IF src = "" THEN {"failed"} ELSE {"ok", "failed"}

\* One memoized preload settles.  At boot the last one lets Promise.all
\* enable the Start button; later it resumes the rounds waiting for it.
PreloadSettles(src, outcome) ==
    /\ preloadedImagePromises[src] = "pending"
    /\ outcome \in LoadOutcomes(src)
    /\ LET w1 == [World EXCEPT !.preloadedImagePromises[src] = outcome]
           w2 == preloadAwaited(w1, src, outcome)
           allDone == \A s \in AllSrcs : w1.preloadedImagePromises[s] # "pending"
       IN  IF boot = "preloading"
           THEN /\ Becomes(IF allDone THEN [w2 EXCEPT !.ui.startBtnDisabled = FALSE] ELSE w2)
                /\ boot' = IF allDone THEN "ready" ELSE boot
           ELSE /\ Becomes(w2)
                /\ UNCHANGED boot
    /\ lastEvent' = "preload"

-----------------------------------------------------------------------------
(* Event handlers *)

StartClick ==
    /\ ui.screen = "start"
    /\ ~ui.startBtnDisabled
    /\ \E shuffled \in Shuffles(scenarios) : Becomes(startGame(World, shuffled))
    /\ lastEvent' = "startGame"
    /\ UNCHANGED boot

ChoiceClick(userChoice) ==
    /\ Becomes(handleChoice(World, userChoice))
    /\ lastEvent' = IF gameState.acceptingInput THEN "choice" ELSE "choiceIgnored"
    /\ UNCHANGED boot

\* The round timer's callback: () => handleLoss('Time Expired').
RoundTimeout(h) ==
    /\ h \in roundTimeouts
    /\ Becomes(timerCallback(World, h))
    /\ lastEvent' = "roundTimeout"
    /\ UNCHANGED boot

\* The grace delay's callback: nextRound.
GraceTimeout ==
    /\ graceTimeouts > 0
    /\ Becomes(nextRound([World EXCEPT !.graceTimeouts = @ - 1]))
    /\ lastEvent' = "graceTimeout"
    /\ UNCHANGED boot

\* The fresh image load of a suspended loadRound resolved.
ImageLoaded(l) ==
    /\ l \in pendingLoads
    /\ l.stage = "fresh"
    /\ "ok" \in LoadOutcomes(l.src)
    /\ Becomes(roundReady([World EXCEPT !.pendingLoads = @ \ {l}], l.initial))
    /\ lastEvent' = "imageLoaded"
    /\ UNCHANGED boot

\* The fresh image load of a suspended loadRound rejected (error or timeout).
ImageFailed(l) ==
    /\ l \in pendingLoads
    /\ l.stage = "fresh"
    /\ Becomes(loadRoundCatch([World EXCEPT !.pendingLoads = @ \ {l}], l.initial))
    /\ lastEvent' = "imageFailed"
    /\ UNCHANGED boot

RestartClick ==
    /\ ui.screen = "result"
    /\ Becomes(resetGame(World))
    /\ lastEvent' = "resetGame"
    /\ UNCHANGED boot

Next ==
    \/ \E data \in ScenarioLists : ScenariosLoaded(data)
    \/ ScenariosFailed
    \/ \E src \in AllSrcs, outcome \in {"ok", "failed"} : PreloadSettles(src, outcome)
    \/ StartClick
    \/ \E c \in Choices : ChoiceClick(c)
    \/ \E h \in roundTimeouts : RoundTimeout(h)
    \/ GraceTimeout
    \/ \E l \in pendingLoads : ImageLoaded(l)
    \/ \E l \in pendingLoads : ImageFailed(l)
    \/ RestartClick

Spec == Init /\ [][Next]_vars

-----------------------------------------------------------------------------
(* loadRound rejecting: a DOM statement of its body throws *)

\* startGame up to its call of loadRound.
startGameReset(w, shuffled) ==
    LET w1 == [w EXCEPT !.ui.startBtnDisabled = TRUE]
        w2 == clearTimeout(w1, w1.gameState.timer)
        w3 == [w2 EXCEPT !.gameState.score = 0,
                         !.gameState.lives = INITIAL_LIVES,
                         !.gameState.currentScenarioIndex = 0,
                         !.gameState.acceptingInput = FALSE,
                         !.lastReason = "none"]
        w4 == [w3 EXCEPT !.scenarios = shuffled]
    IN  disableChoiceButtons(updateHUD(w4), TRUE)

\* The handler of a rejected loadRound: the chain startGame awaits rejects
\* startGame, whose caller in init() re-enables the Start button; a chain
\* begun by nextRound ends the game.
loadRoundRejected(w, initial) ==
    IF initial
    THEN [w EXCEPT !.ui.startBtnDisabled = FALSE]
    ELSE endGame(w, "Media Pipeline Failure")

\* loadRound entered with a scenario left and throwing at
\* `ui.media.innerHTML = ''`, after it cleared the timer and disabled input.
loadRoundThrows(w, initial) ==
    LET w1 == clearTimeout(w, w.gameState.timer)
        w2 == [w1 EXCEPT !.gameState.acceptingInput = FALSE]
        w3 == disableChoiceButtons(w2, TRUE)
    IN  loadRoundRejected(w3, initial)

\* A scenario is left at the index of w, so loadRound gets to its DOM statements.
ScenarioLeft(w) == w.gameState.currentScenarioIndex < Len(w.scenarios)

\* The state a caller hands to loadRound after `currentScenarioIndex++`.
Advanced(w) == [w EXCEPT !.gameState.currentScenarioIndex = @ + 1]

StartClickThrows ==
    /\ ui.screen = "start"
    /\ ~ui.startBtnDisabled
    /\ Len(scenarios) > 0
    /\ \E shuffled \in Shuffles(scenarios) :
          Becomes(loadRoundThrows(startGameReset(World, shuffled), TRUE))
    /\ lastEvent' = "loadRoundThrew"
    /\ UNCHANGED boot

GraceTimeoutThrows ==
    /\ graceTimeouts > 0
    /\ LET w == Advanced([World EXCEPT !.graceTimeouts = @ - 1])
       IN  ScenarioLeft(w) /\ Becomes(loadRoundThrows(w, FALSE))
    /\ lastEvent' = "loadRoundThrew"
    /\ UNCHANGED boot

ChoiceClickThrows(userChoice) ==
    /\ gameState.acceptingInput
    /\ (userChoice = "ai") = scenarios[gameState.currentScenarioIndex + 1].isAI
    /\ LET w == Advanced([World EXCEPT !.gameState.acceptingInput = FALSE,
                                       !.roundTimeouts = @ \ {gameState.timer},
                                       !.gameState.score = @ + 1,
                                       !.effects = @ + 1])
       IN  ScenarioLeft(w) /\ Becomes(loadRoundThrows(w, FALSE))
    /\ lastEvent' = "loadRoundThrew"
    /\ UNCHANGED boot

ImageFailedThrows(l) ==
    /\ l \in pendingLoads
    /\ l.stage = "fresh"
    /\ LET w == Advanced([World EXCEPT !.pendingLoads = @ \ {l}])
       IN  ScenarioLeft(w) /\ Becomes(loadRoundThrows(w, l.initial))
    /\ lastEvent' = "loadRoundThrew"
    /\ UNCHANGED boot

NextThrows ==
    \/ StartClickThrows
    \/ GraceTimeoutThrows
    \/ \E c \in Choices : ChoiceClickThrows(c)
    \/ \E l \in pendingLoads : ImageFailedThrows(l)

\* The game on a page where loadRound's DOM statements may throw.
FaultSpec == Init /\ [][Next \/ NextThrows]_vars

-----------------------------------------------------------------------------
(* The events of loadImageElement calls *)

\* The session state, which an image load's own events do not touch.
GameUnchanged ==
    UNCHANGED <<scenarios, gameState, roundTimeouts, graceTimeouts, pendingLoads,
                preloadedImagePromises, ui, boot, effects, lastReason>>

\* loadImageElement(src, timeoutMs) is called; `complete` tells whether the
\* image was already available when src was set.
LoadStarts(i, complete) ==
    /\ ~imageLoads[i].started
    /\ imageLoads' = [imageLoads EXCEPT ![i] = loadImageElement(complete)]
    /\ lastEvent' = "loadImageElement"
    /\ GameUnchanged

\* The browser fires the image's load event; img.onload, if still set, is markReady.
ImgLoadEvent(i) ==
    /\ imageLoads[i].started
    /\ imageLoads[i].event = "none"
    /\ imageLoads' = [imageLoads EXCEPT ![i] =
            [(IF @.onload THEN markReady(@) ELSE @) EXCEPT !.event = "load"]]
    /\ lastEvent' = "onload"
    /\ GameUnchanged

\* The browser fires the error event of an image that was not available;
\* img.onerror, if still set, calls finish(error).
ImgErrorEvent(i) ==
    /\ imageLoads[i].started
    /\ imageLoads[i].event = "none"
    /\ ~imageLoads[i].complete
    /\ imageLoads' = [imageLoads EXCEPT ![i] =
            [(IF @.onerror THEN finish(@, TRUE) ELSE @) EXCEPT !.event = "error"]]
    /\ lastEvent' = "onerror"
    /\ GameUnchanged

\* A decode promise settles (decode errors are swallowed): finally => finish(null).
ImgDecodeSettles(i) ==
    /\ imageLoads[i].decodes > 0
    /\ imageLoads' = [imageLoads EXCEPT ![i] = finish([@ EXCEPT !.decodes = @ - 1], FALSE)]
    /\ lastEvent' = "decode"
    /\ GameUnchanged

\* The load timeout fires before finish cleared it: finish(timeout error).
ImgLoadTimeout(i) ==
    /\ imageLoads[i].timeoutId
    /\ imageLoads' = [imageLoads EXCEPT ![i] = finish([@ EXCEPT !.timeoutId = FALSE], TRUE)]
    /\ lastEvent' = "loadTimeout"
    /\ GameUnchanged

NextLoad ==
    \/ \E i \in 1..MaxLoads, complete \in BOOLEAN : LoadStarts(i, complete)
    \/ \E i \in 1..MaxLoads : ImgLoadEvent(i)
    \/ \E i \in 1..MaxLoads : ImgErrorEvent(i)
    \/ \E i \in 1..MaxLoads : ImgDecodeSettles(i)
    \/ \E i \in 1..MaxLoads : ImgLoadTimeout(i)

\* Image loads on their own, every order of their events.
LoadSpec == Init /\ [][NextLoad]_vars

\* A scheduled round timeout is run by the browser's event loop.
FairSpec == Spec /\ WF_vars(\E h \in 1..3 : RoundTimeout(h))

\* Timers fire and every image load settles: the round timeout, the grace
\* delay, the memoized preloads and the fresh load of a round (which
\* IMAGE_LOAD_TIMEOUT_MS rejects at the latest).
LiveSpec ==
    /\ Spec
    /\ WF_vars(\E h \in 1..3 : RoundTimeout(h))
    /\ WF_vars(GraceTimeout)
    /\ WF_vars(\E src \in AllSrcs, outcome \in {"ok", "failed"} : PreloadSettles(src, outcome))
    /\ WF_vars(\E l \in pendingLoads : ImageLoaded(l) \/ ImageFailed(l))

-----------------------------------------------------------------------------
(* Properties *)

\* A round is active: input is accepted for the scenario at the current index.
RoundActive == gameState.acceptingInput

\* The stored round timer is scheduled and has neither fired nor been cleared.
TimerArmed == gameState.timer \in roundTimeouts

\* The choice that matches / does not match the current scenario's AI flag.
RightChoice == IF scenarios[gameState.currentScenarioIndex + 1].isAI THEN "ai" ELSE "real"
WrongChoice == IF scenarios[gameState.currentScenarioIndex + 1].isAI THEN "real" ELSE "ai"

\* C1: in every reachable state 0 <= lives <= INITIAL_LIVES and score >= 0.
C1_LivesAndScoreInRange ==
    /\ gameState.lives >= 0
    /\ gameState.lives <= INITIAL_LIVES
    /\ gameState.score >= 0

\* The last life was lost to a round timeout in a session that had scored.
C1_Witness ==
    /\ gameState.lives = 0
    /\ gameState.score > 0
    /\ lastEvent = "roundTimeout"
    /\ ui.screen = "result"

\* C2: for every activated round the scoring effect (score++ or lives--) runs
\* at most once: after a choice resolved the round its timer callback does not
\* run, and after the timer fired a later choice changes nothing.
C2_AtMostOneResolution ==
    /\ effects <= 1
    /\ effects = 1 => ~TimerArmed
    /\ effects = 1 =>
          \A c \in Choices :
             LET w2 == handleChoice(World, c)
             IN  /\ w2.gameState.score = gameState.score
                 /\ w2.gameState.lives = gameState.lives

\* A choice arrived after the round's timer had fired and was dropped.
C2_Witness ==
    /\ effects = 1
    /\ lastEvent = "choiceIgnored"
    /\ graceTimeouts = 1
    /\ gameState.lives = INITIAL_LIVES - 1
    /\ gameState.score = 0

\* C3: between handlers, acceptingInput is true exactly when the round timer
\* is armed and the current round has not been resolved.
C3_AcceptingIffArmedUnresolved ==
    gameState.acceptingInput <=> (TimerArmed /\ effects = 0)

\* A round is active with its timer armed, after an earlier round was resolved.
C3_Witness ==
    /\ gameState.acceptingInput
    /\ TimerArmed
    /\ gameState.currentScenarioIndex > 0

\* C4: a handleChoice call while acceptingInput is false changes neither
\* score, lives, currentScenarioIndex nor the timer, for either choice.
C4_IgnoredChoiceChangesNothing ==
    ~gameState.acceptingInput =>
        \A c \in Choices :
            LET w2 == handleChoice(World, c)
            IN  /\ w2.gameState = gameState
                /\ w2.roundTimeouts = roundTimeouts
                /\ w2.graceTimeouts = graceTimeouts
                /\ w2.ui.screen = ui.screen

\* A choice was clicked during the grace delay, where the buttons are enabled.
C4_Witness ==
    /\ lastEvent = "choiceIgnored"
    /\ ~gameState.acceptingInput
    /\ graceTimeouts = 1
    /\ ~ui.choiceDisabled
    /\ ui.screen = "game"

\* C5: in an active round a choice that matches the scenario's AI flag adds
\* exactly 1 to score, leaves lives alone, disarms the round's timer and
\* advances currentScenarioIndex by exactly 1 in the same handler, scheduling
\* no grace delay.
C5_CorrectChoiceScoresAndAdvances ==
    RoundActive =>
        LET w2 == handleChoice(World, RightChoice)
        IN  /\ w2.gameState.score = gameState.score + 1
            /\ w2.gameState.lives = gameState.lives
            /\ gameState.timer \notin w2.roundTimeouts
            /\ w2.gameState.currentScenarioIndex = gameState.currentScenarioIndex + 1
            /\ w2.graceTimeouts = graceTimeouts

\* Round 1 was answered correctly with 3 lives: score 1, lives 3, round 2 is up.
C5_Witness ==
    /\ lastEvent = "choice"
    /\ gameState.score = 1
    /\ gameState.lives = INITIAL_LIVES
    /\ gameState.currentScenarioIndex = 1
    /\ effects = 0

\* What C6 requires of the state w2 a loss with `reason` leaves behind.
LossOutcome(w2, reason) ==
    /\ w2.gameState.lives = gameState.lives - 1
    /\ w2.gameState.score = gameState.score
    /\ (w2.gameState.lives = 0) <=> (w2.ui.screen = "result")
    /\ w2.gameState.lives = 0 => w2.lastReason = reason
    /\ w2.gameState.lives > 0 =>
          /\ w2.lastReason = "none"
          /\ w2.ui.screen = "game"
          /\ w2.gameState.currentScenarioIndex = gameState.currentScenarioIndex
          /\ w2.graceTimeouts = graceTimeouts + 1
          /\ nextRound([w2 EXCEPT !.graceTimeouts = @ - 1]).gameState.currentScenarioIndex
                = gameState.currentScenarioIndex + 1

\* C6: every loss (wrong choice or round timeout) takes exactly 1 from lives
\* and leaves score alone; the session ends, with the triggering reason,
\* exactly when lives reached 0, and otherwise goes on to index + 1 once the
\* grace delay fires.
C6_LossDecrementsAndEndsAtZero ==
    RoundActive =>
        /\ LossOutcome(handleChoice(World, WrongChoice), "Incorrect Classification")
        /\ \A h \in roundTimeouts : LossOutcome(timerCallback(World, h), "Time Expired")

\* The third wrong answer took the last life and ended the session.
C6_Witness ==
    /\ lastEvent = "choice"
    /\ gameState.lives = 0
    /\ lastReason = "Incorrect Classification"
    /\ ui.screen = "result"

\* The fields on which a timeout and a wrong choice must agree.
Resolution(w) ==
    [ lives |-> w.gameState.lives, score |-> w.gameState.score,
      currentScenarioIndex |-> w.gameState.currentScenarioIndex,
      acceptingInput |-> w.gameState.acceptingInput,
      roundTimeouts |-> w.roundTimeouts, graceTimeouts |-> w.graceTimeouts,
      screen |-> w.ui.screen, ended |-> w.lastReason # "none" ]

C7_TimeoutAsWrongChoice ==
    RoundActive =>
        \A h \in roundTimeouts :
            Resolution(timerCallback(World, h)) = Resolution(handleChoice(World, WrongChoice))

C7_OnlyChoiceOrExpiryDisarms ==
    \A h \in 1..3 :
        (h \in roundTimeouts /\ h \notin roundTimeouts')
            => lastEvent' \in {"choice", "roundTimeout"}

\* C7: the timer of an active round leaves the armed state only by a choice or
\* by firing, it eventually does, and when it fires the round is resolved as a
\* wrong choice would resolve it: same lives, score, index and end-or-continue.
C7_TimeoutFiresAndCountsAsWrong ==
    /\ []C7_TimeoutAsWrongChoice
    /\ [][C7_OnlyChoiceOrExpiryDisarms]_vars
    /\ \A h \in 1..3 : (h \in roundTimeouts) ~> (h \notin roundTimeouts)

\* A round timed out with lives to spare: a life is gone, the grace delay runs.
C7_Witness ==
    /\ lastEvent = "roundTimeout"
    /\ gameState.lives = INITIAL_LIVES - 1
    /\ graceTimeouts = 1
    /\ ~gameState.acceptingInput

\* The state in which the continuation of the suspended load l runs.
Resumed(l) == [World EXCEPT !.pendingLoads = @ \ {l}]

\* C8: while a round's media is loading no timer is armed and input is
\* disabled; a failed load changes currentScenarioIndex by exactly +1 and
\* neither score nor lives, and activates no round unless the next scenario's
\* media is there; a load that succeeds makes its scenario the active round.
C8_SkipChangesOnlyIndex ==
    /\ pendingLoads # {} => (~gameState.acceptingInput /\ roundTimeouts = {})
    /\ \A l \in pendingLoads :
          LET skipped == loadRoundCatch(Resumed(l), l.initial)
              loaded  == roundReady(Resumed(l), l.initial)
              index   == gameState.currentScenarioIndex
          IN  /\ skipped.gameState.score = gameState.score
              /\ skipped.gameState.lives = gameState.lives
              /\ skipped.gameState.currentScenarioIndex = index + 1
              /\ skipped.graceTimeouts = graceTimeouts
              /\ skipped.gameState.acceptingInput <=>
                    (index + 1 < Len(scenarios) /\ scenarios[index + 2].type = "text")
              /\ skipped.pendingLoads # {} <=>
                    (index + 1 < Len(scenarios) /\ scenarios[index + 2].type = "image")
              /\ loaded.gameState.acceptingInput
              /\ loaded.gameState.currentScenarioIndex = index
              /\ loaded.gameState.score = gameState.score
              /\ loaded.gameState.lives = gameState.lives

\* Two images in a row failed to load in a session that had won and lost a
\* round; the round after them is active with score and lives as before.
C8_Witness ==
    /\ lastEvent = "imageFailed"
    /\ gameState.acceptingInput
    /\ gameState.currentScenarioIndex = 3
    /\ gameState.score = 1
    /\ gameState.lives = INITIAL_LIVES

\* loadRound called in state w with the sequence exhausted ends the session.
EndsComplete(w, initial) ==
    w.gameState.currentScenarioIndex >= Len(w.scenarios) =>
        LET w2 == loadRound(w, initial)
        IN  /\ w2.ui.screen = "result"
            /\ w2.lastReason = "Simulation Complete."
            /\ w2.roundTimeouts = {}
            /\ ~w2.gameState.acceptingInput
            /\ w2.pendingLoads = {}
            /\ w2.gameState.score = w.gameState.score
            /\ w2.gameState.lives = w.gameState.lives

\* C9: whenever loadRound is entered with currentScenarioIndex >= the number
\* of scenarios (after the grace delay, after a correct choice, or after the
\* last remaining scenario was skipped) the session ends with reason
\* "Simulation Complete.", no timer armed, input disabled, score and lives
\* as loadRound found them.
C9_ExhaustedSequenceEnds ==
    /\ graceTimeouts > 0 =>
          EndsComplete(Advanced([World EXCEPT !.graceTimeouts = @ - 1]), FALSE)
    /\ \A l \in pendingLoads : EndsComplete(Advanced(Resumed(l)), l.initial)
    /\ RoundActive =>
          EndsComplete(Advanced([World EXCEPT !.gameState.score = @ + 1,
                                              !.gameState.acceptingInput = FALSE,
                                              !.roundTimeouts = {}]), FALSE)
    /\ (gameState.currentScenarioIndex >= Len(scenarios) /\ Len(scenarios) > 0) =>
          /\ lastReason = "Simulation Complete."
          /\ ui.screen \in {"result", "start"}
          /\ ~gameState.acceptingInput
          /\ roundTimeouts = {}

\* Every scenario of the session was skipped as unloadable and it ended.
C9_Witness ==
    /\ lastEvent = "imageFailed"
    /\ Len(scenarios) = MaxScenarios
    /\ gameState.currentScenarioIndex = Len(scenarios)
    /\ lastReason = "Simulation Complete."
    /\ ui.screen = "result"
    /\ gameState.score = 0
    /\ gameState.lives = INITIAL_LIVES

\* The elements of a sequence with their multiplicities.
Multiset(s) ==
    [x \in {s[i] : i \in DOMAIN s} |-> Cardinality({i \in DOMAIN s : s[i] = x})]

\* C10: startGame on a non-empty scenario sequence, from any state, leaves
\* score 0, lives INITIAL_LIVES and currentScenarioIndex 0, has disarmed the
\* timer that was pending, keeps input disabled with no timer armed while the
\* first round loads, and leaves in scenarios a permutation of what was there.
C10_StartGameResets ==
    Len(scenarios) > 0 =>
        \A shuffled \in Shuffles(scenarios) :
            LET w2 == startGame(World, shuffled)
            IN  /\ w2.gameState.score = 0
                /\ w2.gameState.lives = INITIAL_LIVES
                /\ w2.gameState.currentScenarioIndex = 0
                /\ gameState.timer \notin w2.roundTimeouts
                /\ w2.scenarios[1].type = "image" =>
                      (~w2.gameState.acceptingInput /\ w2.roundTimeouts = {})
                /\ w2.scenarios[1].type = "text" =>
                      (w2.gameState.acceptingInput /\ w2.roundTimeouts = {w2.gameState.timer})
                /\ Multiset(w2.scenarios) = Multiset(scenarios)

\* A later session was started (the stored timer handle is the previous
\* session's) and its first round, an image, is loading.
C10_Witness ==
    /\ lastEvent = "startGame"
    /\ gameState.timer # 0
    /\ gameState.timer \notin roundTimeouts
    /\ gameState.score = 0
    /\ gameState.lives = INITIAL_LIVES
    /\ gameState.currentScenarioIndex = 0
    /\ pendingLoads # {}
    /\ Len(scenarios) = MaxScenarios

\* C11: resetGame is idempotent: from every state a second call in a row
\* leaves the state the first call left (timer disarmed, acceptingInput
\* false, start screen, score, lives and index as they were).
C11_ResetIdempotent ==
    LET once == resetGame(World)
    IN  /\ resetGame(once) = once
        /\ ~once.gameState.acceptingInput
        /\ once.gameState.timer \notin once.roundTimeouts
        /\ once.ui.screen = "start"
        /\ once.gameState.score = gameState.score
        /\ once.gameState.lives = gameState.lives
        /\ once.gameState.currentScenarioIndex = gameState.currentScenarioIndex
        /\ lastEvent = "resetGame" => once = World

\* Restart was clicked on the result screen of a session that lost a life.
C11_Witness ==
    /\ lastEvent = "resetGame"
    /\ ui.screen = "start"
    /\ gameState.lives < INITIAL_LIVES
    /\ gameState.currentScenarioIndex > 0

\* C12_OneLoad(l): the promise of call l was settled by its first completion
\* and by nothing after it.
C12_OneLoad(l) ==
    /\ l.settles <= 1
    /\ l.done <=> (l.settles = 1)
    /\ l.done <=> (l.promise # "pending")
    /\ l.done => (~l.timeoutId /\ ~l.onload /\ ~l.onerror)
    /\ (l.started /\ ~l.done) => l.timeoutId
    /\ l.timeoutId => finish([l EXCEPT !.timeoutId = FALSE], TRUE).promise = "rejected"

C12_Settled ==
    \A i \in 1..MaxLoads : C12_OneLoad(imageLoads[i])

C12_SettledForGood ==
    \A i \in 1..MaxLoads :
        imageLoads[i].promise # "pending" => imageLoads'[i].promise = imageLoads[i].promise

\* C12: a loadImageElement call completes at most once under every order of
\* onload, onerror, decode completion and the load timeout: the first
\* completion settles the promise, later ones are ignored, and while nothing
\* has completed it the timeout stays scheduled and rejects it when it fires.
C12_LoadCompletesOnce ==
    /\ []C12_Settled
    /\ [][C12_SettledForGood]_vars

\* The timeout rejected the load of an image that was complete when src was
\* set; its load event came too, and the decode that finished last was ignored.
C12_Witness ==
    \E i \in 1..MaxLoads :
        /\ imageLoads[i].complete
        /\ imageLoads[i].promise = "rejected"
        /\ imageLoads[i].event = "load"
        /\ imageLoads[i].decodes = 0
        /\ imageLoads[i].settles = 1
        /\ lastEvent = "decode"

\* The scenario at the current index.
CurrentData == scenarios[gameState.currentScenarioIndex + 1]

C13_FreshLoadDecides ==
    /\ \A l \in pendingLoads :
          /\ l.stage = "preload" <=> preloadedImagePromises[l.src] = "pending"
          /\ l.stage = "fresh" <=> preloadedImagePromises[l.src] \in {"ok", "failed"}
          /\ l.src = CurrentData.src
    /\ (RoundActive /\ CurrentData.type = "image") => lastEvent = "imageLoaded"

C13_PreloadOutcomeSkipsNothing ==
    lastEvent' = "preload" =>
        /\ gameState' = gameState
        /\ Cardinality(pendingLoads') = Cardinality(pendingLoads)
        /\ \A l \in pendingLoads' : l.stage = "fresh" \/ l \in pendingLoads

\* C13: an image round waits while the memoized preload of its source is
\* pending and starts its own load once that has settled, whether it resolved
\* or rejected; the settling of a preload neither skips nor activates a
\* round, which only the fresh load's outcome does.
C13_MaterializeRetriesAfterPreload ==
    /\ []C13_FreshLoadDecides
    /\ [][C13_PreloadOutcomeSkipsNothing]_vars

\* An image round is active although the preload of its source had failed.
C13_Witness ==
    /\ RoundActive
    /\ CurrentData.type = "image"
    /\ preloadedImagePromises[CurrentData.src] = "failed"
    /\ lastEvent = "imageLoaded"

\* A round waits for a preload that was created when the round was loaded.
C13_WaitingWitness ==
    /\ \E l \in pendingLoads : l.stage = "preload"
    /\ ui.screen = "game"

\* C14: whenever loadRound has failed, in the first round of a session as
\* in later ones, the session is Ended with reason "Media Pipeline Failure",
\* the timer cancelled and input disabled.
C14_FailureEndsSession ==
    lastEvent = "loadRoundThrew" =>
        /\ ui.screen = "result"
        /\ lastReason = "Media Pipeline Failure"
        /\ ~gameState.acceptingInput
        /\ roundTimeouts = {}

\* The session has ended (endGame ran) and startGame has not run since;
\* covers the result screen and the start screen resetGame leads to.
SessionOver == lastReason # "none"

C15_NothingPendingWhenOver ==
    SessionOver =>
        /\ roundTimeouts = {}
        /\ ~gameState.acceptingInput
        /\ graceTimeouts = 0
        /\ pendingLoads = {}

C15_FrozenWhileOver ==
    (SessionOver /\ SessionOver') =>
        /\ gameState'.score = gameState.score
        /\ gameState'.lives = gameState.lives
        /\ gameState'.currentScenarioIndex = gameState.currentScenarioIndex

\* C15: from endGame or resetGame until the next startGame no round timer is
\* armed, acceptingInput is false, no grace delay or media load is left to
\* run, and score, lives and currentScenarioIndex stay as they are.
C15_QuietAfterEndOrReset ==
    /\ []C15_NothingPendingWhenOver
    /\ [][C15_FrozenWhileOver]_vars

\* After the last life was lost and Restart was clicked, a choice click came.
C15_Witness ==
    /\ SessionOver
    /\ ui.screen = "start"
    /\ lastEvent = "choiceIgnored"
    /\ gameState.lives = 0

\* C16: at most one round timer is armed, and it is the stored one; arming
\* from any state leaves exactly the new timer armed; outside an active round
\* none is armed.
C16_AtMostOneTimer ==
    /\ Cardinality(roundTimeouts) <= 1
    /\ roundTimeouts \subseteq {gameState.timer}
    /\ ~gameState.acceptingInput => roundTimeouts = {}
    /\ LET w2 == startTimer(World)
       IN  /\ w2.roundTimeouts = {w2.gameState.timer}
           /\ w2.gameState.timer # gameState.timer
    /\ \A c \in Choices : gameState.timer \notin handleChoice(World, c).roundTimeouts
    /\ resetGame(World).roundTimeouts = {}
    /\ endGame(World, "Time Expired").roundTimeouts = {}
    /\ ScenarioLeft(World) => gameState.timer \notin loadRound(World, FALSE).roundTimeouts
    /\ \A shuffled \in Shuffles(scenarios) :
          gameState.timer \notin startGame(World, shuffled).roundTimeouts

\* The third round of a session is active on its own timer.
C16_Witness ==
    /\ gameState.acceptingInput
    /\ roundTimeouts = {gameState.timer}
    /\ gameState.currentScenarioIndex = 2

\* C17: a loss that leaves lives > 0 neither advances the index nor loads a
\* round; while the grace delay is pending acceptingInput is false, the index
\* stays and nothing is loading; when it fires the index grows by exactly 1
\* and the next round's load begins (or the sequence is found exhausted).
C17_DuringGrace ==
    /\ graceTimeouts > 0 =>
          /\ graceTimeouts = 1
          /\ ~gameState.acceptingInput
          /\ roundTimeouts = {}
          /\ pendingLoads = {}
          /\ gameState.lives > 0
          /\ ui.screen = "game"
    /\ (RoundActive /\ gameState.lives > 1) =>
          LET w2 == handleChoice(World, WrongChoice)
          IN  /\ w2.graceTimeouts = 1
              /\ w2.gameState.currentScenarioIndex = gameState.currentScenarioIndex
              /\ w2.pendingLoads = {}
              /\ ~w2.gameState.acceptingInput

C17_GraceStep ==
    graceTimeouts > 0 =>
        \/ /\ graceTimeouts' = graceTimeouts
           /\ gameState' = gameState
           /\ pendingLoads' = pendingLoads
        \/ /\ lastEvent' = "graceTimeout"
           /\ graceTimeouts' = 0
           /\ gameState'.currentScenarioIndex = gameState.currentScenarioIndex + 1
           /\ \/ pendingLoads' # {}
              \/ gameState'.acceptingInput
              \/ ui'.screen = "result"

C17_GraceDelayThenAdvance ==
    /\ []C17_DuringGrace
    /\ [][C17_GraceStep]_vars

\* The grace delay fired and the next round, an image, is loading.
C17_Witness ==
    /\ lastEvent = "graceTimeout"
    /\ gameState.lives = INITIAL_LIVES - 1
    /\ gameState.currentScenarioIndex = 1
    /\ pendingLoads # {}

\* C18: whenever a round is active the HUD shows the current score and lives.
C18_HudShowsScoreAndLives ==
    RoundActive =>
        /\ ui.score = gameState.score
        /\ ui.lives = gameState.lives

C19_IndexInRange ==
    /\ gameState.currentScenarioIndex >= 0
    /\ gameState.currentScenarioIndex <= Len(scenarios)
    /\ gameState.acceptingInput => gameState.currentScenarioIndex < Len(scenarios)
    /\ pendingLoads # {} => gameState.currentScenarioIndex < Len(scenarios)

C19_IndexGrows ==
    lastEvent' # "startGame" =>
        gameState'.currentScenarioIndex >= gameState.currentScenarioIndex

\* C19: 0 <= currentScenarioIndex <= scenarios.length always, the index
\* never decreases except in startGame, and while input is accepted it is
\* below scenarios.length, so handleChoice reads an existing scenario.
C19_IndexBounds ==
    /\ []C19_IndexInRange
    /\ [][C19_IndexGrows]_vars

\* The last scenario of a full-length list is the active round.
C19_Witness ==
    /\ gameState.acceptingInput
    /\ Len(scenarios) = MaxScenarios
    /\ gameState.currentScenarioIndex = Len(scenarios) - 1

\* A session is running: startGame ran on a non-empty sequence and endGame
\* has not run since.
InSession ==
    /\ lastReason = "none"
    /\ \/ ui.screen = "game"
       \/ pendingLoads # {}

Ended == ui.screen = "result"

\* A step that resolves or skips a round.
RoundLeft ==
    \/ lastEvent' = "graceTimeout"
    \/ lastEvent' = "imageFailed"
    \/ lastEvent' = "choice" /\ gameState'.score > gameState.score

C20_EveryRoundAdvances ==
    RoundLeft => gameState'.currentScenarioIndex = gameState.currentScenarioIndex + 1

\* C20: every session started on a non-empty sequence reaches Ended when
\* timers fire and image loads settle; each resolved or skipped round adds
\* exactly 1 to currentScenarioIndex, also when every image fails to load.
C20_SessionTerminates ==
    /\ [][C20_EveryRoundAdvances]_vars
    /\ InSession ~> Ended

\* A session in which every scenario was an image that failed has ended.
C20_Witness ==
    /\ Ended
    /\ lastEvent = "imageFailed"
    /\ Len(scenarios) = MaxScenarios
    /\ \A i \in 1..Len(scenarios) : scenarios[i].type = "image"
    /\ gameState.currentScenarioIndex = Len(scenarios)

=============================================================================
